---- MODULE Spec2Model ----
(***************************************************************************)
(* Model of d3net/semantic-segmentation/comm.py: the CommunicatorWrapper   *)
(* around nnabla's MultiProcessDataParallelCommunicator, and the AttrDict  *)
(* configuration dictionary.                                               *)
(***************************************************************************)
EXTENDS Integers, Sequences, FiniteSets, TLC

VARIABLES
    pc,        \* "new" before CommunicatorWrapper(ctx) has run, "ready" after
    mpi,       \* the runtime's communicator as the process would see it: size, rank, local_rank
    self,      \* the wrapper's attributes
    ctxs,      \* the context objects, by identity
    origDev,   \* the device id string the caller's context had at the call
    last,      \* the most recent method call: its arguments, the calls it made, its outcome
    heap,      \* the dict / AttrDict objects, by identity
    cur,       \* the value of the attribute expression evaluated so far
    path,      \* the attribute names read so far in that expression
    err,       \* what the last read raised: "" when it returned
    stmt,      \* the last AttrDict statement: its kind, object, key, and the state before it
    nwrites,   \* attribute assignments made so far
    fault      \* the step of the constructor's try block that raises in this environment

vars == <<pc, mpi, self, ctxs, origDev, last, fault, heap, cur, path, err, stmt, nwrites>>

commVars == <<pc, mpi, self, ctxs, origDev, last, fault>>

dictVars == <<heap, cur, path, err, stmt, nwrites>>

\* ------------------------------------------------------------------ bounds

MaxProcs == 3

MaxSolverArgs == 2

MaxObjs == 4

MaxWrites == 2

MaxDepth == 3

\* ------------------------------------------------------------ device ids

Digits == <<"0", "1", "2", "3", "4", "5", "6", "7", "8", "9">>

DigitVal(c) == (CHOOSE i \in 1..10 : Digits[i] = c) - 1

RECURSIVE ParseInt(_)
\* int(s) for a string of decimal digits, given as the sequence of its characters
ParseInt(s) ==
    IF Len(s) = 0 THEN 0
    ELSE 10 * ParseInt(SubSeq(s, 1, Len(s) - 1)) + DigitVal(s[Len(s)])

RECURSIVE FormatInt(_)
\* str(n) for n >= 0: no leading zeros, "0" for zero
FormatInt(n) ==
    IF n < 10 THEN <<Digits[n + 1]>>
    ELSE Append(FormatInt(n \div 10), Digits[(n % 10) + 1])

\* device ids a caller passes: plain, with a leading zero, and ones whose sum carries
DeviceIds == {<<"0">>, <<"7">>, <<"0", "3">>, <<"1", "9">>}

\* ------------------------------------------------------ the environment

\* The (size, rank, local_rank) triples a process of an initialised communicator can see.
Runtimes ==
    {r \in [size : 1..MaxProcs, rank : 0..(MaxProcs - 1), local_rank : 0..(MaxProcs - 1)] :
        r.rank < r.size /\ r.local_rank <= r.rank}

\* The steps of the try block that can raise, in program order; "none": no step raises.
FailPoints == <<"construct", "init", "size", "rank", "local_rank", "none">>

StepOf(f) == CHOOSE i \in 1..Len(FailPoints) : FailPoints[i] = f

Unset == -1

callerCtx == 1

floatCtx == 2

\* --------------------------------------------------- contexts (nnabla side)

\* get_extension_context(ext_name, device_id=...): a fresh context for one extension
GetExtensionContext(ext, dev) == [backend |-> <<<<ext, "float">>>>, device_id |-> dev]

\* A backend entry "ext:type_config" is held as the pair <<ext, type_config>>;
\* split(':')[0] is its first component.
CreateFloatContext(ctx) == GetExtensionContext(ctx.backend[1][1], ctx.device_id)

CallerBackend == <<<<"cudnn", "half">>, <<"cpu", "half">>>>

\* ------------------------------------------- CommunicatorWrapper.__init__

NoSelf ==
    [n_procs |-> Unset, rank |-> Unset, local_rank |-> Unset, comm |-> "unset",
     ctx |-> Unset, ctx_float |-> Unset]

\* The attributes as the try block leaves them when step f raises (or none does):
\* each assignment is made only if every step before it succeeded.
TryBlock(f, m) ==
    [NoSelf EXCEPT !.n_procs = IF StepOf(f) > StepOf("size") THEN m.size ELSE Unset,
                   !.rank = IF StepOf(f) > StepOf("rank") THEN m.rank ELSE Unset,
                   !.local_rank = IF StepOf(f) > StepOf("local_rank") THEN m.local_rank ELSE Unset,
                   !.comm = IF f = "none" THEN "comm" ELSE "unset"]

ExceptHandler_KeepsAssigned(s) ==
    [s EXCEPT !.n_procs = IF @ = Unset THEN 1 ELSE @,
              !.rank = IF @ = Unset THEN 0 ELSE @,
              !.local_rank = IF @ = Unset THEN 0 ELSE @,
              !.comm = "None"]

ExceptHandler_ForgetsNProcs(s) ==
    [s EXCEPT !.rank = 0, !.local_rank = 0, !.comm = "None"]

ExceptHandler(s) ==
    [s EXCEPT !.n_procs = 1, !.rank = 0, !.local_rank = 0, !.comm = "None"]

AdjustDeviceId_NoRank(dev, local_rank) == FormatInt(ParseInt(dev))

AdjustDeviceId(dev, local_rank) == FormatInt(ParseInt(dev) + local_rank)

Caught_OnlyConstruct(f) == f = "construct"

\* except Exception: every failure of the communicator's steps is an Exception
Caught(f) == f \in {"construct", "init", "size", "rank", "local_rank"}

Construct ==
    /\ pc = "new"
    /\ LET tried == TryBlock(fault, mpi)
       IN IF fault # "none" /\ ~Caught(fault)
          THEN /\ pc' = "raised"
               /\ self' = tried
               /\ ctxs' = ctxs
          ELSE LET s == IF fault = "none" THEN tried ELSE ExceptHandler(tried)
                   ctx == [ctxs[callerCtx] EXCEPT
                             !.device_id = AdjustDeviceId(@, s.local_rank)]
               IN /\ pc' = "ready"
                  /\ self' = [s EXCEPT !.ctx = callerCtx, !.ctx_float = floatCtx]
                  /\ ctxs' = (callerCtx :> ctx) @@ (floatCtx :> CreateFloatContext(ctx))
    /\ UNCHANGED <<mpi, origDev, last, fault, dictVars>>

\* ------------------------------------------------ calls made by the methods

\* Two solvers, with one and two parameters; scope 0 is nn's global parameter scope,
\* holding the parameters of both.
Solvers == {1, 2}

NumParams(solver) == IF solver = 0 THEN 3 ELSE solver

\* [x.grad for x in <scope>.get_parameters().values()]
Grads(solver) == [i \in 1..NumParams(solver) |-> <<solver, i>>]

NoRet == [kind |-> "None", params |-> <<>>, packing |-> 0]

Ev(op, target, params, division, inplace, packing) ==
    [op |-> op, target |-> target, params |-> params, division |-> division,
     inplace |-> inplace, packing |-> packing]

Returned(events, ret) == [events |-> events, raised |-> FALSE, ret |-> ret]

\* self.comm.<op>(...): AttributeError when self.comm is not a communicator
CommCall(s, ev, ret) ==
    IF s.comm = "comm" THEN Returned(<<ev>>, ret)
    ELSE [events |-> <<>>, raised |-> TRUE, ret |-> NoRet]

Arg(given, default) == IF given = {} THEN default ELSE CHOOSE v \in given : TRUE

AllReduce_SwapsFlags(s, params, division, inplace) ==
    IF s.n_procs = 1 THEN Returned(<<>>, NoRet)
    ELSE CommCall(s, Ev("all_reduce", 0, params, inplace, division, 0), NoRet)

AllReduce(s, params, division, inplace) ==
    IF s.n_procs = 1 THEN Returned(<<>>, NoRet)
    ELSE CommCall(s, Ev("all_reduce", 0, params, division, inplace, 0), NoRet)

Barrier_Always(s) == CommCall(s, Ev("barrier", 0, <<>>, FALSE, FALSE, 0), NoRet)

Barrier(s) ==
    IF s.n_procs = 1 THEN Returned(<<>>, NoRet)
    ELSE CommCall(s, Ev("barrier", 0, <<>>, FALSE, FALSE, 0), NoRet)

UpdateEv(solver) == Ev("update", solver, <<>>, FALSE, FALSE, 0)

SolverUpdate_UpdatesFirst(s, solver, division, inplace) ==
    LET r == IF s.n_procs > 1 THEN AllReduce(s, Grads(solver), division, inplace)
             ELSE Returned(<<>>, NoRet)
    IN IF r.raised THEN r ELSE [r EXCEPT !.events = <<UpdateEv(solver)>> \o @]

SolverUpdate(s, solver, division, inplace) ==
    LET r == IF s.n_procs > 1 THEN AllReduce(s, Grads(solver), division, inplace)
             ELSE Returned(<<>>, NoRet)
    IN IF r.raised THEN r ELSE [r EXCEPT !.events = Append(@, UpdateEv(solver))]

RECURSIVE SolverUpdateAll(_, _, _, _)

SolverUpdateAll_Reversed(s, solvers, division, inplace) ==
    IF Len(solvers) <= 1 THEN
        IF solvers = <<>> THEN Returned(<<>>, NoRet)
        ELSE SolverUpdate(s, solvers[1], division, inplace)
    ELSE LET r == SolverUpdate(s, solvers[Len(solvers)], division, inplace)
             rest == SolverUpdateAll(s, SubSeq(solvers, 1, Len(solvers) - 1), division, inplace)
         IN IF r.raised THEN r ELSE [rest EXCEPT !.events = r.events \o @]

SolverUpdateAll(s, solvers, division, inplace) ==
    IF solvers = <<>> THEN Returned(<<>>, NoRet)
    ELSE LET r == SolverUpdate(s, Head(solvers), division, inplace)
         IN IF r.raised THEN r
            ELSE LET rest == SolverUpdateAll(s, Tail(solvers), division, inplace)
                 IN [rest EXCEPT !.events = r.events \o @]

\* 2 << 20
DefaultPackingSize == 2 * (2 ^ 20)

DefaultPackingSize_OneMiB == 2 ^ 20

PackingArg_WrongDefault(given) == Arg(given, DefaultPackingSize_OneMiB)

PackingArg(given) == Arg(given, DefaultPackingSize)

GetAllReduceCallback(s, packing_size) ==
    IF s.n_procs > 1
    THEN CommCall(s, Ev("all_reduce_callback", 0, Grads(0), FALSE, FALSE, packing_size),
                  [kind |-> "callback", params |-> Grads(0), packing |-> packing_size])
    ELSE Returned(<<>>, NoRet)

\* ------------------------------------------------------------- the methods

NoCall ==
    [method |-> "", params |-> <<>>, division |-> {}, inplace |-> {}, solvers |-> <<>>,
     packing |-> {}, events |-> <<>>, raised |-> FALSE, ret |-> NoRet]

Call(method, out) ==
    [NoCall EXCEPT !.method = method, !.events = out.events, !.raised = out.raised,
                   !.ret = out.ret]

ParamLists == {Grads(2), <<>>}

PackingSizes == {1, 4096}

\* The (division, inplace) keyword arguments a caller gives; {} is an argument left out.
FlagArgs == {<<{}, {}>>, <<{TRUE}, {}>>, <<{}, {FALSE}>>, <<{TRUE}, {FALSE}>>, <<{FALSE}, {TRUE}>>}

PackingArgs == {{}} \cup {{n} : n \in PackingSizes}

SolverLists == UNION {[1..n -> Solvers] : n \in 0..MaxSolverArgs}

all_reduce(params, division, inplace) ==
    /\ pc = "ready"
    /\ last' = [Call("all_reduce", AllReduce(self, params, division, inplace))
                  EXCEPT !.params = params, !.division = {division}, !.inplace = {inplace}]
    /\ UNCHANGED <<pc, mpi, self, ctxs, origDev, fault, dictVars>>

barrier ==
    /\ pc = "ready"
    /\ last' = Call("barrier", Barrier(self))
    /\ UNCHANGED <<pc, mpi, self, ctxs, origDev, fault, dictVars>>

all_reduced_solver_update(solver, division, inplace) ==
    /\ pc = "ready"
    /\ last' = [Call("all_reduced_solver_update",
                     SolverUpdate(self, solver, Arg(division, FALSE), Arg(inplace, TRUE)))
                  EXCEPT !.solvers = <<solver>>, !.division = division, !.inplace = inplace]
    /\ UNCHANGED <<pc, mpi, self, ctxs, origDev, fault, dictVars>>

all_reduced_solver_update_all(solvers, division, inplace) ==
    /\ pc = "ready"
    /\ last' = [Call("all_reduced_solver_update_all",
                     SolverUpdateAll(self, solvers, Arg(division, FALSE), Arg(inplace, TRUE)))
                  EXCEPT !.solvers = solvers, !.division = division, !.inplace = inplace]
    /\ UNCHANGED <<pc, mpi, self, ctxs, origDev, fault, dictVars>>

get_all_reduce_callback(packing_size) ==
    /\ pc = "ready"
    /\ last' = [Call("get_all_reduce_callback",
                     GetAllReduceCallback(self, PackingArg(packing_size)))
                  EXCEPT !.packing = packing_size]
    /\ UNCHANGED <<pc, mpi, self, ctxs, origDev, fault, dictVars>>

\* ----------------------------------------------------------------- AttrDict

\* Attribute names the model reads and assigns: two ordinary keys, the class's
\* internal variable, and a method inherited from dict.
Keys == {"a", "b", "_parent", "items"}

\* Names that normal attribute lookup finds on an AttrDict, so that __getattr__ is
\* not consulted for them: the class variable _parent, the method dump_to_stdout
\* and the methods of the base class dict (items is the one used here).
ClassAttrs == {"_parent", "dump_to_stdout", "items"}

NoneV == [t |-> "none", n |-> 0, p |-> <<>>]

IntV(n) == [t |-> "int", n |-> n, p |-> <<>>]

RefV(id) == [t |-> "ref", n |-> id, p |-> <<>>]

ListV(p) == [t |-> "list", n |-> 0, p |-> p]

MethodV(id) == [t |-> "method", n |-> id, p |-> <<>>]

\* AttrDict() / {}: no entries, no instance attributes
EmptyDict(cls) == [cls |-> cls, items |-> <<>>, has_parent |-> FALSE, parent |-> NoneV]

root == 1

\* self._parent: the instance attribute when set, else the class variable []
ParentOf(d) == IF d.has_parent THEN d.parent ELSE ListV(<<>>)

RECURSIVE Join(_)
\* ".".join(names)
Join(names) ==
    IF Len(names) = 0 THEN ""
    ELSE IF Len(names) = 1 THEN names[1]
    ELSE names[1] \o "." \o Join(Tail(names))

Message(names) == "dict (AttrDict) has no chain of attributes '" \o Join(names) \o "'"

SetItem(h, o, key, v) ==
    [h EXCEPT ![o].items = [k \in (DOMAIN @) \cup {key} |-> IF k = key THEN v ELSE @[k]]]

SetAttr_NoSpecialCase(h, o, key, v) == SetItem(h, o, key, v)

\* AttrDict.__setattr__
SetAttr(h, o, key, v) ==
    IF key = "_parent"
    THEN [h EXCEPT ![o].has_parent = TRUE, ![o].parent = v]
    ELSE SetItem(h, o, key, v)

GetAttrHook_ParentNotExtended(h, o, key) ==
    LET d == h[o]
        par == ParentOf(d)
    IN IF key \notin DOMAIN d.items
       THEN [heap |-> h, val |-> NoneV,
             err |-> IF par.t = "list" THEN Message(Append(par.p, key)) ELSE "TypeError"]
       ELSE IF d.items[key].t = "ref"
       THEN LET n == Len(h) + 1
                wrapped == [EmptyDict("AttrDict") EXCEPT !.items = h[d.items[key].n].items]
                h1 == SetItem(Append(h, wrapped), o, key, RefV(n))
            IN [heap |-> SetAttr(h1, n, "_parent", ListV(<<key>>)), val |-> RefV(n),
                err |-> ""]
       ELSE [heap |-> h, val |-> d.items[key], err |-> ""]

\* AttrDict.__getattr__, called when normal lookup finds no attribute named key
GetAttrHook(h, o, key) ==
    LET d == h[o]
        par == ParentOf(d)
    IN IF key \notin DOMAIN d.items
       THEN [heap |-> h, val |-> NoneV,
             err |-> IF par.t = "list" THEN Message(Append(par.p, key)) ELSE "TypeError"]
       ELSE IF d.items[key].t = "ref"
       THEN LET n == Len(h) + 1
                wrapped == [EmptyDict("AttrDict") EXCEPT !.items = h[d.items[key].n].items]
                h1 == SetItem(Append(h, wrapped), o, key, RefV(n))
            IN IF par.t = "list"
               THEN [heap |-> SetAttr(h1, n, "_parent", ListV(Append(par.p, key))),
                     val |-> RefV(n), err |-> ""]
               ELSE [heap |-> h1, val |-> NoneV, err |-> "TypeError"]
       ELSE [heap |-> h, val |-> d.items[key], err |-> ""]

\* The expression o.key on an AttrDict o
ReadAttr(h, o, key) ==
    IF key = "_parent" THEN [heap |-> h, val |-> ParentOf(h[o]), err |-> ""]
    ELSE IF key \in ClassAttrs THEN [heap |-> h, val |-> MethodV(o), err |-> ""]
    ELSE GetAttrHook(h, o, key)

NoStmt ==
    [kind |-> "none", obj |-> 0, key |-> "", val |-> NoneV, present |-> FALSE,
     was |-> NoneV, pre |-> <<>>]

IsAttrDict(h, v) == v.t = "ref" /\ h[v.n].cls = "AttrDict"

\* A new expression, starting at the root configuration object
Begin ==
    /\ cur' = RefV(root)
    /\ path' = <<>>
    /\ err' = ""
    /\ stmt' = NoStmt
    /\ UNCHANGED <<heap, nwrites, commVars>>

Observe(kind, h, o, key, v) ==
    [kind |-> kind, obj |-> o, key |-> key, val |-> v,
     present |-> key \in DOMAIN h[o].items,
     was |-> IF key \in DOMAIN h[o].items THEN h[o].items[key] ELSE NoneV,
     pre |-> h]

\* the statement <expression so far>.key = v, v an int or the object itself
Assign(key, v) ==
    /\ IsAttrDict(heap, cur)
    /\ err = ""
    /\ nwrites < MaxWrites
    /\ heap' = SetAttr(heap, cur.n, key, v)
    /\ stmt' = Observe("set", heap, cur.n, key, v)
    /\ nwrites' = nwrites + 1
    /\ UNCHANGED <<cur, path, err, commVars>>

\* the statement <expression so far>.key = {}
AssignNewDict(key) ==
    /\ IsAttrDict(heap, cur)
    /\ err = ""
    /\ nwrites < MaxWrites
    /\ Len(heap) < MaxObjs
    /\ LET h1 == Append(heap, EmptyDict("dict"))
           v == RefV(Len(h1))
       IN /\ heap' = SetAttr(h1, cur.n, key, v)
          /\ stmt' = Observe("set", heap, cur.n, key, v)
    /\ nwrites' = nwrites + 1
    /\ UNCHANGED <<cur, path, err, commVars>>

\* the expression so far, extended by .key
Read(key) ==
    /\ IsAttrDict(heap, cur)
    /\ err = ""
    /\ Len(path) < MaxDepth
    /\ LET r == ReadAttr(heap, cur.n, key)
       IN /\ Len(r.heap) <= MaxObjs
          /\ heap' = r.heap
          /\ cur' = r.val
          /\ err' = r.err
    /\ path' = Append(path, key)
    /\ stmt' = Observe("get", heap, cur.n, key, NoneV)
    /\ UNCHANGED <<nwrites, commVars>>

\* --------------------------------------------------------- specification

InitComm ==
    /\ pc = "new"
    /\ mpi \in Runtimes
    /\ origDev \in DeviceIds
    /\ ctxs = (callerCtx :> [backend |-> CallerBackend, device_id |-> origDev])
    /\ self = NoSelf
    /\ last = NoCall
    /\ fault \in {FailPoints[i] : i \in 1..Len(FailPoints)}

\* conf = AttrDict()
InitDict ==
    /\ heap = <<EmptyDict("AttrDict")>>
    /\ cur = RefV(root)
    /\ path = <<>>
    /\ err = ""
    /\ stmt = NoStmt
    /\ nwrites = 0

Init == InitComm /\ InitDict

NextComm ==
    \/ Construct
    \/ \E p \in ParamLists, d \in BOOLEAN, i \in BOOLEAN : all_reduce(p, d, i)
    \/ barrier
    \/ \E s \in Solvers, fl \in FlagArgs : all_reduced_solver_update(s, fl[1], fl[2])
    \/ \E ss \in SolverLists, fl \in FlagArgs : all_reduced_solver_update_all(ss, fl[1], fl[2])
    \/ \E k \in PackingArgs : get_all_reduce_callback(k)

\* the wrapper alone, over an untouched configuration object
Comm == Init /\ [][NextComm]_vars

NextDict ==
    \/ Begin
    \/ \E k \in Keys, v \in {IntV(1), IntV(2), cur} : Assign(k, v)
    \/ \E k \in Keys : AssignNewDict(k)
    \/ \E k \in Keys : Read(k)

InitIdle == InitDict /\ InitComm /\ mpi.size = 1 /\ origDev = <<"0">> /\ fault = "none"

\* the configuration object alone, before any wrapper is constructed
Dict == InitIdle /\ [][NextDict]_vars

Next == NextComm \/ NextDict

Spec == Init /\ [][Next]_vars

\* ------------------------------------------------- properties: the wrapper

TheArg(given) == CHOOSE v \in given : TRUE

\* C1: the constructor falls back atomically. It never raises because a step of the
\* try block failed; when a step failed the wrapper has exactly n_procs = 1, rank = 0,
\* local_rank = 0, comm = None, and when none failed it has the communicator's size,
\* rank and local_rank and comm is the communicator.
C1_AtomicFallback ==
    /\ pc # "raised"
    /\ pc = "ready" =>
          IF fault = "none"
          THEN /\ self.n_procs = mpi.size
               /\ self.rank = mpi.rank
               /\ self.local_rank = mpi.local_rank
               /\ self.comm = "comm"
          ELSE /\ self.n_procs = 1
               /\ self.rank = 0
               /\ self.local_rank = 0
               /\ self.comm = "None"

\* reading comm.local_rank failed after n_procs and rank had been taken from a
\* communicator of 3 processes
C1_Witness ==
    /\ pc = "ready"
    /\ fault = "local_rank"
    /\ mpi.size = 3
    /\ mpi.rank = 2
    /\ self.n_procs = 1

\* C2: all_reduce makes no call on the communicator when n_procs = 1, and otherwise
\* exactly one all_reduce call with the caller's params, division and inplace.
C2_AllReduceForwards ==
    last.method = "all_reduce" =>
        /\ ~last.raised
        /\ IF self.n_procs = 1
           THEN last.events = <<>>
           ELSE last.events = <<Ev("all_reduce", 0, last.params, TheArg(last.division),
                                   TheArg(last.inplace), 0)>>

C2_Witness ==
    /\ last.method = "all_reduce"
    /\ self.n_procs = 2
    /\ Len(last.events) = 1
    /\ last.events[1].division
    /\ ~last.events[1].inplace
    /\ Len(last.events[1].params) = 2

\* C3: barrier makes no call on the communicator when n_procs = 1, and otherwise
\* exactly one barrier call.
C3_BarrierForwards ==
    last.method = "barrier" =>
        /\ ~last.raised
        /\ IF self.n_procs = 1
           THEN last.events = <<>>
           ELSE /\ Len(last.events) = 1
                /\ last.events[1].op = "barrier"
                /\ last.events[1].target = 0

\* a communicator of a single process: the wrapper holds it and still makes no call
C3_Witness ==
    /\ last.method = "barrier"
    /\ self.comm = "comm"
    /\ self.n_procs = 1
    /\ last.events = <<>>

EventsOf(o) == {j \in DOMAIN last.events : last.events[j].op = o}

\* C4: a call of all_reduced_solver_update that returns calls solver.update() exactly
\* once; with n_procs > 1 the solver's gradients (one per parameter) are all-reduced
\* exactly once and before the update; with n_procs = 1 nothing is all-reduced.
C4_ReduceThenUpdate ==
    (last.method = "all_reduced_solver_update" /\ ~last.raised) =>
        LET s == last.solvers[1]
        IN /\ Cardinality(EventsOf("update")) = 1
           /\ \A j \in EventsOf("update") : last.events[j].target = s
           /\ self.n_procs > 1 =>
                 /\ Cardinality(EventsOf("all_reduce")) = 1
                 /\ \A j \in EventsOf("all_reduce") :
                       /\ last.events[j].target = 0
                       /\ Len(last.events[j].params) = NumParams(s)
                       /\ \A i \in 1..NumParams(s) : last.events[j].params[i] = <<s, i>>
                       /\ \A k \in EventsOf("update") : j < k
           /\ self.n_procs = 1 => EventsOf("all_reduce") = {}

C4_Witness ==
    /\ last.method = "all_reduced_solver_update"
    /\ self.n_procs = 3
    /\ last.solvers = <<2>>
    /\ Len(last.events) = 2
    /\ last.events[2].op = "update"

\* C5: all_reduced_solver_update_all handles the solvers in argument order, each with
\* the same flags: (all-reduce s1 if n_procs > 1), update s1, (all-reduce s2 ...),
\* update s2, ...; with no solver it makes no call.
C5_UpdateAllInOrder ==
    last.method = "all_reduced_solver_update_all" =>
        LET k == Len(last.solvers)
            d == Arg(last.division, FALSE)
            i == Arg(last.inplace, TRUE)
        IN /\ ~last.raised
           /\ IF self.n_procs > 1
              THEN /\ Len(last.events) = 2 * k
                   /\ \A j \in 1..k :
                         /\ last.events[2 * j - 1] =
                               Ev("all_reduce", 0, Grads(last.solvers[j]), d, i, 0)
                         /\ last.events[2 * j] = UpdateEv(last.solvers[j])
              ELSE /\ Len(last.events) = k
                   /\ \A j \in 1..k : last.events[j] = UpdateEv(last.solvers[j])

C5_Witness ==
    /\ last.method = "all_reduced_solver_update_all"
    /\ self.n_procs = 2
    /\ last.solvers = <<1, 2>>
    /\ Len(last.events) = 4
    /\ last.events[2].target = 1
    /\ last.events[3].op = "all_reduce"

\* C6: get_all_reduce_callback returns None exactly when n_procs = 1, and then calls
\* nothing; otherwise it returns what one call of the communicator's
\* all_reduce_callback returns, given the caller's packing_size, 2097152 when left out.
C6_CallbackOrNone ==
    last.method = "get_all_reduce_callback" =>
        /\ ~last.raised
        /\ (last.ret.kind = "None") <=> (self.n_procs = 1)
        /\ self.n_procs = 1 => last.events = <<>>
        /\ self.n_procs # 1 =>
              /\ Len(last.events) = 1
              /\ last.events[1].op = "all_reduce_callback"
              /\ last.events[1].target = 0
              /\ last.events[1].packing =
                    (IF last.packing = {} THEN 2097152 ELSE TheArg(last.packing))
              /\ last.ret.kind = "callback"
              /\ last.ret.packing = last.events[1].packing
              /\ last.ret.params = last.events[1].params

C6_Witness ==
    /\ last.method = "get_all_reduce_callback"
    /\ self.n_procs = 3
    /\ last.packing = {}
    /\ last.ret.kind = "callback"
    /\ last.ret.packing = 2097152

IsCanonical(s) ==
    /\ Len(s) >= 1
    /\ \A i \in 1..Len(s) : \E j \in 1..10 : Digits[j] = s[i]
    /\ Len(s) > 1 => s[1] # "0"

\* C7: after the constructor, ctx.device_id is the decimal string of the integer value
\* of the original device id plus the wrapper's local_rank (so the same number in the
\* fallback mode), and self.ctx is the caller's context object, changed in place.
C7_DeviceIdPlusLocalRank ==
    pc = "ready" =>
        /\ self.ctx = callerCtx
        /\ IsCanonical(ctxs[self.ctx].device_id)
        /\ ParseInt(ctxs[self.ctx].device_id) = ParseInt(origDev) + self.local_rank
        /\ fault # "none" => ParseInt(ctxs[self.ctx].device_id) = ParseInt(origDev)

C7_Witness ==
    /\ pc = "ready"
    /\ origDev = <<"1", "9">>
    /\ self.local_rank = 1
    /\ ctxs[self.ctx].device_id = <<"2", "0">>

\* C10: once constructed, comm = None implies n_procs = 1, no method call raises for
\* want of a communicator, and no method changes n_procs, rank, local_rank, comm or
\* ctx (the attributes, or the context objects).
C10_WrapperSafety ==
    /\ [](pc = "ready" => ((self.comm = "None" => self.n_procs = 1) /\ ~last.raised))
    /\ [][pc = "ready" => (self' = self /\ ctxs' = ctxs)]_vars

C10_Witness ==
    /\ pc = "ready"
    /\ self.comm = "None"
    /\ last.method = "all_reduced_solver_update_all"
    /\ Len(last.events) = 2

\* ---------------------------------------------------- properties: AttrDict

ReadReturnsEntry ==
    /\ err = ""
    /\ cur = heap[stmt.obj].items[stmt.key]
    /\ stmt.was.t = "ref" =>
          /\ IsAttrDict(heap, cur)
          /\ heap[cur.n].items = stmt.pre[stmt.was.n].items
    /\ stmt.was.t # "ref" => cur = stmt.was

\* C8 as stated: for every key k, after d.k = v the entry d[k] is v, and for every key
\* present in d the read d.k returns d[k] (wrapped when a dict) without raising.
C8_AsStated ==
    /\ stmt.kind = "set" =>
          /\ stmt.key \in DOMAIN heap[stmt.obj].items
          /\ heap[stmt.obj].items[stmt.key] = stmt.val
    /\ (stmt.kind = "get" /\ stmt.present) => ReadReturnsEntry

\* C8, amended: for every key k other than "_parent", after d.k = v the entry d[k] is
\* v, while d._parent = v leaves the entries as they were; for every key present in d
\* that is not a name normal lookup finds on the object, the read d.k returns d[k]
\* (wrapped when a dict) without raising, as long as d._parent is a list.
C8_AttributeAccess ==
    /\ (stmt.kind = "set" /\ stmt.key # "_parent") =>
          /\ stmt.key \in DOMAIN heap[stmt.obj].items
          /\ heap[stmt.obj].items[stmt.key] = stmt.val
    /\ (stmt.kind = "set" /\ stmt.key = "_parent") =>
          heap[stmt.obj].items = stmt.pre[stmt.obj].items
    /\ (/\ stmt.kind = "get"
        /\ stmt.present
        /\ stmt.key \notin ClassAttrs
        /\ ParentOf(stmt.pre[stmt.obj]).t = "list") => ReadReturnsEntry

\* a read of a key that holds a dict, which is wrapped and returned
C8_Witness ==
    /\ stmt.kind = "get"
    /\ stmt.key = "a"
    /\ stmt.present
    /\ stmt.was.t = "ref"
    /\ err = ""
    /\ IsAttrDict(heap, cur)
    /\ heap[cur.n].parent = ListV(path)

\* the dotted path, written out for each length
Dotted(names) ==
    CASE Len(names) = 1 -> names[1]
      [] Len(names) = 2 -> names[1] \o "." \o names[2]
      [] Len(names) = 3 -> names[1] \o "." \o names[2] \o "." \o names[3]
      [] Len(names) = 4 -> names[1] \o "." \o names[2] \o "." \o names[3] \o "." \o names[4]

NoParentAssigned == \A o \in DOMAIN stmt.pre : ParentOf(stmt.pre[o]).t = "list"

FailsNamingThePath ==
    /\ err = "dict (AttrDict) has no chain of attributes '" \o Dotted(path) \o "'"
    /\ Len(heap) = Len(stmt.pre)
    /\ \A o \in DOMAIN heap : DOMAIN heap[o].items = DOMAIN stmt.pre[o].items

\* C9 as stated: a read root.k1. ... .kn whose last name is no key of the innermost dict
\* raises AttributeError naming 'k1. ... .kn', and adds no key to any dict.
C9_AsStated ==
    (stmt.kind = "get" /\ ~stmt.present /\ NoParentAssigned) => FailsNamingThePath

\* C9, amended: the same, for a last name that is not a name normal lookup finds on
\* the object (_parent, dump_to_stdout, the methods of dict), and as long as no
\* _parent attribute was assigned by the caller.
C9_MissingKeyNamesPath ==
    (/\ stmt.kind = "get"
     /\ ~stmt.present
     /\ stmt.key \notin ClassAttrs
     /\ NoParentAssigned) => FailsNamingThePath

C9_Witness ==
    /\ stmt.kind = "get"
    /\ path = <<"a", "a", "b">>
    /\ err = "dict (AttrDict) has no chain of attributes 'a.a.b'"

====
